---- MODULE Spec2Model ----
(***************************************************************************)
(* homework_bot: a single-threaded poll / parse / notify loop.             *)
(*                                                                         *)
(* Model of src/homework.py.  Texts are sequences of string pieces: an     *)
(* f-string is the concatenation of its pieces, str(int) is the sequence   *)
(* of its decimal digits.  The Russian literals of the source are written  *)
(* transliterated (the module is ASCII); two texts of the model are equal  *)
(* exactly when the two Python strings are.                                *)
(***************************************************************************)
EXTENDS Integers, Sequences, FiniteSets, TLC

(***************************************************************************)
(* Bounds of the model.                                                    *)
(***************************************************************************)
\* timestamps the clock and the server can supply: 1..MaxDate
MaxDate == 2
\* longest homeworks list the server returns
MaxHomeworks == 2

(***************************************************************************)
(* Program constants.                                                      *)
(***************************************************************************)
RETRY_PERIOD == 600
HTTPStatus_OK == 200

(***************************************************************************)
(* Python values.                                                          *)
(***************************************************************************)
\* Python's None where a text is expected (last_error_message = None).
\* Every text of the program is a non-empty sequence of pieces.
None == <<>>

\* decoded JSON scalars (and one unhashable value), tagged by Python type
JInt(n) == [type |-> "int", num |-> n, str |-> ""]
JStr(s) == [type |-> "str", num |-> 0, str |-> s]
JNull == [type |-> "NoneType", num |-> 0, str |-> ""]
JEmptyList == [type |-> "list", num |-> 0, str |-> ""]

\* a local that has not been assigned yet
Unbound == [type |-> "unbound", num |-> 0, str |-> ""]
UnboundText == <<"<unbound>">>

Digit(d) == CASE d = 0 -> "0" [] d = 1 -> "1" [] d = 2 -> "2" [] d = 3 -> "3"
              [] d = 4 -> "4" [] d = 5 -> "5" [] d = 6 -> "6" [] d = 7 -> "7"
              [] d = 8 -> "8" [] d = 9 -> "9"

RECURSIVE IntStr(_)
\* str(n) for a natural number: its decimal digits
IntStr(n) == IF n < 10 THEN <<Digit(n)>>
             ELSE IntStr(n \div 10) \o <<Digit(n % 10)>>

\* str(v) / f'{v}' of a tagged value
PyStr(v) == CASE v.type = "int" -> IntStr(v.num)
              [] v.type = "str" -> <<v.str>>
              [] v.type = "NoneType" -> <<"None">>
              [] v.type = "list" -> <<"[]">>

\* f'{type(v)}' for a value of the Python type named t
PyTypeRepr(t) == <<"<class '", t, "'>">>

\* the outcome of a call: a returned value or a raised exception
Return(v) == [raised |-> FALSE, cls |-> "", text |-> <<>>, value |-> v]
Raise(c, t) == [raised |-> TRUE, cls |-> c, text |-> t, value |-> JNull]

\* exception classes and the base classes the program names for them
Bases(c) ==
  CASE c = "ApiTelegramException" -> {"ApiTelegramException", "ApiException", "Exception"}
    [] c = "ApiException" -> {"ApiException", "Exception"}
    [] c = "ConnectionError" -> {"ConnectionError", "RequestException", "Exception"}
    [] c = "RequestException" -> {"RequestException", "Exception"}
    [] c \in {"EndpointUnavailableError", "APIResponseError", "MissingAPIKeyError",
              "UnexpectedHomeworkStatusError", "JSONDecodeError", "MissingTokensError"}
         -> {c, "HomeworkStatusException", "Exception"}
    [] OTHER -> {c, "Exception"}

\* isinstance(exception of class c, classes)
IsInstance(c, classes) == Bases(c) \cap classes # {}

(***************************************************************************)
(* Configuration: check_tokens                                             *)
(***************************************************************************)
TokenNames == <<"PRACTICUM_TOKEN", "TELEGRAM_TOKEN", "TELEGRAM_CHAT_ID">>
TokenNameSet == {TokenNames[i] : i \in 1..Len(TokenNames)}

\* os.getenv(name): None when unset, else the string (possibly empty)
EnvUnset == [set |-> FALSE, val |-> ""]
EnvValues == {EnvUnset, [set |-> TRUE, val |-> ""], [set |-> TRUE, val |-> "secret"]}

\* Python truthiness of an os.getenv result
Truthy(v) == v.set /\ v.val # ""

RECURSIVE Join(_, _)
\* sep.join(names) as text pieces
Join(names, sep) ==
  IF Len(names) = 0 THEN <<>>
  ELSE IF Len(names) = 1 THEN <<names[1]>>
  ELSE <<names[1], sep>> \o Join(Tail(names), sep)

\* a check that stops at the first missing name
missing_tokens_first_only(e) ==
  LET all == SelectSeq(TokenNames, LAMBDA n : ~Truthy(e[n]))
  IN IF Len(all) > 0 THEN <<all[1]>> ELSE all

\* the loop of lines 51-53: names whose value is falsy, in dict order
missing_tokens(e) == SelectSeq(TokenNames, LAMBDA n : ~Truthy(e[n]))

check_tokens(e) ==
  LET missing == missing_tokens(e)
      error_message == <<"Otsutstvuyut obyazatelnye peremennye okruzheniya: ">>
                         \o Join(missing, ", ")
  IN IF Len(missing) > 0 THEN Raise("MissingTokensError", error_message)
     ELSE Return(JNull)

(***************************************************************************)
(* Status fetcher: get_api_answer                                          *)
(***************************************************************************)
\* A decoded JSON top-level value.  keys is the set of keys of a dict that
\* the program looks at; a value that is not a dict has none.
JsonValue(t, ks, hws, date) ==
  [type |-> t, keys |-> ks, homeworks |-> hws, current_date |-> date]

\* The outcome of requests.get(...) together with that of response.json():
\* exc is the class requests.get raised ("" when it returned), text the str()
\* of the exception raised by requests.get or by response.json().
NetRaise(c, t) ==
  [exc |-> c, text |-> t, status_code |-> 0, is_json |-> FALSE,
   json |-> JsonValue("NoneType", {}, JNull, JNull)]
NetResponse(code, isj, t, v) ==
  [exc |-> "", text |-> t, status_code |-> code, is_json |-> isj, json |-> v]

\* a fetcher that decodes the body before it looks at the status code
get_api_answer_json_first(timestamp, net) ==
  IF net.exc # "" THEN
    IF IsInstance(net.exc, {"RequestException"})
    THEN Raise("EndpointUnavailableError",
               <<"Oshibka pri zaprose k API: ">> \o net.text)
    ELSE Raise(net.exc, net.text)
  ELSE IF ~net.is_json THEN
    Raise("JSONDecodeError",
          <<"Oshibka pri obrabotke otveta API: ">> \o net.text)
  ELSE IF net.status_code # HTTPStatus_OK THEN
    Raise("EndpointUnavailableError",
          <<"Endpoint nedostupen. Kod otveta: ">> \o IntStr(net.status_code))
  ELSE Return(net.json)

get_api_answer(timestamp, net) ==
  IF net.exc # "" THEN
    IF IsInstance(net.exc, {"RequestException"})
    THEN Raise("EndpointUnavailableError",
               <<"Oshibka pri zaprose k API: ">> \o net.text)
    ELSE Raise(net.exc, net.text)
  ELSE IF net.status_code # HTTPStatus_OK THEN
    Raise("EndpointUnavailableError",
          <<"Endpoint nedostupen. Kod otveta: ">> \o IntStr(net.status_code))
  ELSE IF ~net.is_json THEN
    Raise("JSONDecodeError",
          <<"Oshibka pri obrabotke otveta API: ">> \o net.text)
  ELSE Return(net.json)

(***************************************************************************)
(* Response validator: check_response                                      *)
(***************************************************************************)
\* the value under 'homeworks': a list of records or something else
HomeworksValue(t, its) == [type |-> t, items |-> its]

\* a validator without the isinstance check of line 114
check_response_no_list_check(response) ==
  IF response.type # "dict" THEN
    Raise("TypeError",
          <<"Otvet API ne sootvetstvuet ozhidaemoi strukture. ",
            "Poluchen tip: ">> \o PyTypeRepr(response.type))
  ELSE IF "homeworks" \notin response.keys THEN
    Raise("MissingAPIKeyError", <<"Otsutstvuet klyuch \"homeworks\" v otvete API">>)
  ELSE Return(response.homeworks.items)

check_response(response) ==
  IF response.type # "dict" THEN
    Raise("TypeError",
          <<"Otvet API ne sootvetstvuet ozhidaemoi strukture. ",
            "Poluchen tip: ">> \o PyTypeRepr(response.type))
  ELSE IF "homeworks" \notin response.keys THEN
    Raise("MissingAPIKeyError", <<"Otsutstvuet klyuch \"homeworks\" v otvete API">>)
  ELSE IF response.homeworks.type # "list" THEN
    Raise("TypeError",
          <<"homeworks ne yavlyaetsya spiskom. Poluchen tip: ">>
            \o PyTypeRepr(response.homeworks.type))
  ELSE Return(response.homeworks.items)

(***************************************************************************)
(* Status interpreter: parse_status                                        *)
(***************************************************************************)
HOMEWORK_VERDICTS ==
  [approved |-> "Rabota proverena: revyueru vse ponravilos. Ura!",
   reviewing |-> "Rabota vzyata na proverku revyuerom.",
   rejected |-> "Rabota proverena: u revyuera est zamechaniya."]

\* a homework record: a dict with some of the two keys, or another value
Homework(t, ks, name, st) ==
  [type |-> t, keys |-> ks, homework_name |-> name, status |-> st]

parse_status(homework) ==
  IF homework.type # "dict" THEN
    Raise("APIResponseError", <<"Dannye o domashnei rabote ne yavlyayutsya slovarem">>)
  ELSE IF "homework_name" \notin homework.keys THEN
    Raise("MissingAPIKeyError",
          <<"Otsutstvuet klyuch \"homework_name\" v informatsii o domashnei rabote">>)
  ELSE IF "status" \notin homework.keys THEN
    Raise("MissingAPIKeyError",
          <<"Otsutstvuet klyuch \"status\" v informatsii o domashnei rabote">>)
  ELSE LET homework_name == homework.homework_name
           homework_status == homework.status
       IN IF homework_status.type = "list" THEN
            \* `x not in dict` hashes x: a list is unhashable
            Raise("TypeError", <<"unhashable type: 'list'">>)
          ELSE IF ~(homework_status.type = "str"
                    /\ homework_status.str \in DOMAIN HOMEWORK_VERDICTS) THEN
            Raise("UnexpectedHomeworkStatusError",
                  <<"Neizvestnyi status raboty: ">> \o PyStr(homework_status))
          ELSE LET verdict == HOMEWORK_VERDICTS[homework_status.str]
               IN Return(<<"Izmenilsya status proverki raboty \"">>
                           \o PyStr(homework_name) \o <<"\". ", verdict>>)

(***************************************************************************)
(* Notifier: send_message                                                  *)
(***************************************************************************)
\* the outcome of bot.send_message(...): the class it raised ("" when it
\* returned) and the str() of that exception
Transport(c, t) == [exc |-> c, text |-> t]

\* the except clause of line 71
SendCaught == {"ApiException", "RequestException"}

send_message(message, transport) ==
  IF transport.exc = "" THEN Return(TRUE)
  ELSE IF IsInstance(transport.exc, SendCaught) THEN Return(FALSE)
  ELSE Raise(transport.exc, transport.text)

\* the logging.error of lines 72-73, when send_message catches
send_message_log(message, transport) ==
  IF transport.exc # "" /\ IsInstance(transport.exc, SendCaught)
  THEN <<[fn |-> "logging.error",
          arg |-> <<"Oshibka pri otpravke soobscheniya: ">> \o transport.text,
          res |-> ""]>>
  ELSE <<>>

(***************************************************************************)
(* What the environment can do: the inputs of the model.                   *)
(***************************************************************************)
HomeworkNames == {JStr("hw")}
StatusValues == {JStr("approved"), JStr("reviewing"), JStr("rejected"),
                 JStr("archived"), JNull, JEmptyList}

NotARecord == Homework("str", {}, JNull, JNull)
\* every record the first element of the list can be
FirstHomeworks ==
  {NotARecord, Homework("dict", {}, JNull, JNull),
   Homework("dict", {"status"}, JNull, JStr("approved"))}
  \cup {Homework("dict", {"homework_name"}, n, JNull) : n \in HomeworkNames}
  \cup {Homework("dict", {"homework_name", "status"}, n, st) :
          n \in HomeworkNames, st \in StatusValues}
\* the records that may follow the first one
RestHomeworks ==
  {NotARecord, Homework("dict", {"homework_name", "status"}, JStr("hw"), JStr("archived"))}

RECURSIVE RestLists(_)
RestLists(n) ==
  IF n = 0 THEN {<<>>}
  ELSE RestLists(n - 1) \cup {Append(l, r) : l \in RestLists(n - 1), r \in RestHomeworks}

HomeworkLists ==
  {<<>>} \cup {<<h>> \o l : h \in FirstHomeworks, l \in RestLists(MaxHomeworks - 1)}

\* the values a present 'current_date' can have
DateValues == {JInt(n) : n \in 1..MaxDate} \cup {JNull}

JsonValues ==
  {JsonValue("list", {}, JNull, JNull), JsonValue("NoneType", {}, JNull, JNull),
   JsonValue("dict", {}, JNull, JNull),
   JsonValue("dict", {"current_date"}, JNull, JInt(1)),
   JsonValue("dict", {"homeworks"}, HomeworksValue("dict", <<>>), JNull),
   JsonValue("dict", {"homeworks", "current_date"}, HomeworksValue("NoneType", <<>>), JInt(1))}
  \cup {JsonValue("dict", {"homeworks"}, HomeworksValue("list", l), JNull) :
          l \in HomeworkLists}
  \cup {JsonValue("dict", {"homeworks", "current_date"}, HomeworksValue("list", l), d) :
          l \in HomeworkLists, d \in DateValues}

NetOutcomes ==
  {NetRaise("ConnectionError", <<"connection refused">>),
   NetRaise("RequestException", <<"timed out">>),
   NetResponse(500, TRUE, <<>>, JsonValue("dict", {}, JNull, JNull)),
   NetResponse(500, FALSE, <<"Expecting value">>, JsonValue("NoneType", {}, JNull, JNull)),
   NetResponse(404, FALSE, <<"Expecting value">>, JsonValue("NoneType", {}, JNull, JNull)),
   NetResponse(HTTPStatus_OK, FALSE, <<"Expecting value">>,
               JsonValue("NoneType", {}, JNull, JNull))}
  \cup {NetResponse(HTTPStatus_OK, TRUE, <<>>, v) : v \in JsonValues}

TransportOutcomes ==
  {Transport("", <<>>),
   Transport("ApiTelegramException", <<"chat not found">>),
   Transport("ConnectionError", <<"connection refused">>),
   Transport("KeyError", <<"'result'">>)}

(***************************************************************************)
(* The driver: main                                                        *)
(***************************************************************************)
VARIABLES
  env,                 \* the three module-level values read by os.getenv
  pc,                  \* where main is
  current_timestamp,   \* the poll cursor
  last_error_message,  \* the last-error cache
  response,            \* local of main: the decoded response
  homeworks,           \* local of main: the validated list
  homework,            \* local of main: the record that is interpreted
  http,                \* the HTTP exchange of the latest get_api_answer call
  message,             \* local of main: the text to send
  error,               \* the exception being handled or propagating
  propagating,         \* an exception is leaving main
  payload,             \* the payload of the latest get_api_answer call
  events,              \* history: calls made since the top of the loop, in order
  cache0,              \* history: last_error_message at the top of the iteration
  prev_cycle,          \* history: how the preceding iteration ended
  last_marking,        \* history: how the latest iteration ended that was
                       \* neither an empty-list nor a failed-status-send one
  prev_sends           \* history: the results of the send_message calls of
                       \* the preceding iteration, in order

vars == <<env, pc, current_timestamp, last_error_message, response, homeworks,
          homework, http, message, error, propagating, payload, events, cache0,
          prev_cycle, last_marking, prev_sends>>

NoResponse == JsonValue("unbound", {}, JNull, JNull)
NoHomework == Homework("unbound", {}, JNull, JNull)
NoHomeworks == <<NoHomework>>
NoExchange == NetRaise("unbound", <<>>)
NoError == Return(JNull)

\* the f-string of line 172
ErrorMessage(err) == <<"Sboi v rabote programmy: ">> \o err.text

HasEvent(ev, f, r) == \E i \in 1..Len(ev) : ev[i].fn = f /\ ev[i].res = r
CountEvents(ev, f) == Len(SelectSeq(ev, LAMBDA e : e.fn = f))

\* How an iteration ended, read off its calls:
\*   "error"    the handler of line 171 ran to its end, text is its message
\*   "notified" the status message was sent, send_message returned True
\*   "unsent"   the status message was not sent, send_message returned False
\*   "empty"    the homeworks list was empty
\*   "raised"   an exception left the handler
Cycle(k, t) == [kind |-> k, text |-> t]
NoCycle == Cycle("none", <<>>)
CycleOutcome(ev) ==
  IF HasEvent(ev, "logging.error.main", "")
  THEN Cycle("error", SelectSeq(ev, LAMBDA e : e.fn = "logging.error.main")[1].arg)
  ELSE IF HasEvent(ev, "send_message", "raise") THEN Cycle("raised", <<>>)
  ELSE IF HasEvent(ev, "send_message", "True") THEN Cycle("notified", <<>>)
  ELSE IF HasEvent(ev, "send_message", "False") THEN Cycle("unsent", <<>>)
  ELSE Cycle("empty", <<>>)

\* the results of the send_message calls among ev, in order
SendResults(ev) ==
  LET sends == SelectSeq(ev, LAMBDA e : e.fn = "send_message")
  IN [i \in 1..Len(sends) |-> sends[i].res]

\* a call: the function, its text (the message sent or logged, the str() of
\* the exception a call raised) and its result
Event(f, a, r) == [fn |-> f, arg |-> a, res |-> r]
CallEvent(f, r) == Event(f, r.text, IF r.raised THEN "raise" ELSE "return")
SendEvent(msg, r) ==
  Event("send_message", msg,
        IF r.raised THEN "raise" ELSE IF r.value THEN "True" ELSE "False")

Init ==
  /\ env \in [TokenNameSet -> EnvValues]
  /\ pc = "start"
  /\ current_timestamp = Unbound
  /\ last_error_message = UnboundText
  /\ response = NoResponse
  /\ homeworks = NoHomeworks
  /\ homework = NoHomework
  /\ http = NoExchange
  /\ message = UnboundText
  /\ error = NoError
  /\ propagating = FALSE
  /\ payload = Unbound
  /\ events = <<>>
  /\ cache0 = UnboundText
  /\ prev_cycle = NoCycle
  /\ last_marking = NoCycle
  /\ prev_sends = <<>>

\* lines 151-154: check_tokens(), the bot, the initial cursor and cache
Start ==
  /\ pc = "start"
  /\ LET r == check_tokens(env)
     IN IF r.raised
        THEN /\ pc' = "exit"
             /\ error' = r
             /\ propagating' = TRUE
             /\ events' = <<Event("logging.critical", r.text, "")>>
             /\ UNCHANGED <<current_timestamp, last_error_message>>
        ELSE /\ pc' = "try"
             /\ \E now \in 1..MaxDate : current_timestamp' = JInt(now)
             /\ last_error_message' = None
             /\ UNCHANGED <<error, propagating, events>>
  /\ UNCHANGED <<env, response, homeworks, homework, http, message, payload,
                 cache0, prev_cycle, last_marking, prev_sends>>

\* response.get('current_date') without the default: None when absent
response_get_no_default(resp, default) ==
  IF "current_date" \in resp.keys THEN resp.current_date ELSE JNull

\* response.get('current_date', default)
response_get_current_date(resp, default) ==
  IF "current_date" \in resp.keys THEN resp.current_date ELSE default

\* a Try that applies current_date although the list was empty
TryAdvancingOnEmpty ==
  /\ pc = "try"
  /\ \E net \in NetOutcomes :
       LET a == get_api_answer(current_timestamp, net)
           c == check_response(a.value)
           p == parse_status(c.value[1])
           fetched == <<CallEvent("get_api_answer", a)>>
           checked == fetched \o <<CallEvent("check_response", c)>>
           parsed == checked \o <<CallEvent("parse_status", p)>>
       IN /\ payload' = current_timestamp
          /\ cache0' = last_error_message
          /\ http' = net
          /\ IF a.raised THEN
               /\ pc' = "except" /\ error' = a /\ events' = fetched
               /\ UNCHANGED <<response, homeworks, homework, message>>
               /\ UNCHANGED current_timestamp
             ELSE IF c.raised THEN
               /\ pc' = "except" /\ error' = c /\ events' = checked
               /\ response' = a.value
               /\ UNCHANGED <<homeworks, homework, message>>
               /\ UNCHANGED current_timestamp
             ELSE IF Len(c.value) = 0 THEN
               /\ pc' = "finally" /\ events' = checked
               /\ response' = a.value /\ homeworks' = c.value
               /\ UNCHANGED <<homework, error, message>>
               /\ current_timestamp' =
                    response_get_current_date(a.value, current_timestamp)
             ELSE IF p.raised THEN
               /\ pc' = "except" /\ error' = p /\ events' = parsed
               /\ response' = a.value /\ homeworks' = c.value
               /\ homework' = c.value[1]
               /\ UNCHANGED message
               /\ UNCHANGED current_timestamp
             ELSE
               /\ pc' = "send" /\ events' = parsed
               /\ response' = a.value /\ homeworks' = c.value
               /\ homework' = c.value[1]
               /\ message' = p.value
               /\ UNCHANGED error
               /\ UNCHANGED current_timestamp
  /\ UNCHANGED <<env, last_error_message, propagating,
                 prev_cycle, last_marking, prev_sends>>

\* a Try that interprets the last record of the list, homeworks[-1]
TryLastRecord ==
  /\ pc = "try"
  /\ \E net \in NetOutcomes :
       LET a == get_api_answer(current_timestamp, net)
           c == check_response(a.value)
           p == parse_status(c.value[Len(c.value)])
           fetched == <<CallEvent("get_api_answer", a)>>
           checked == fetched \o <<CallEvent("check_response", c)>>
           parsed == checked \o <<CallEvent("parse_status", p)>>
       IN /\ payload' = current_timestamp
          /\ cache0' = last_error_message
          /\ http' = net
          /\ IF a.raised THEN
               /\ pc' = "except" /\ error' = a /\ events' = fetched
               /\ UNCHANGED <<response, homeworks, homework, message>>
             ELSE IF c.raised THEN
               /\ pc' = "except" /\ error' = c /\ events' = checked
               /\ response' = a.value
               /\ UNCHANGED <<homeworks, homework, message>>
             ELSE IF Len(c.value) = 0 THEN
               /\ pc' = "finally" /\ events' = checked
               /\ response' = a.value /\ homeworks' = c.value
               /\ UNCHANGED <<homework, error, message>>
             ELSE IF p.raised THEN
               /\ pc' = "except" /\ error' = p /\ events' = parsed
               /\ response' = a.value /\ homeworks' = c.value
               /\ homework' = c.value[Len(c.value)]
               /\ UNCHANGED message
             ELSE
               /\ pc' = "send" /\ events' = parsed
               /\ response' = a.value /\ homeworks' = c.value
               /\ homework' = c.value[Len(c.value)]
               /\ message' = p.value
               /\ UNCHANGED error
  /\ UNCHANGED <<env, current_timestamp, last_error_message, propagating,
                 prev_cycle, last_marking, prev_sends>>

\* lines 158-162 and 169-170: fetch, validate, interpret
Try ==
  /\ pc = "try"
  /\ \E net \in NetOutcomes :
       LET a == get_api_answer(current_timestamp, net)
           c == check_response(a.value)
           p == parse_status(c.value[1])
           fetched == <<CallEvent("get_api_answer", a)>>
           checked == fetched \o <<CallEvent("check_response", c)>>
           parsed == checked \o <<CallEvent("parse_status", p)>>
       IN /\ payload' = current_timestamp
          /\ cache0' = last_error_message
          /\ http' = net
          /\ IF a.raised THEN
               /\ pc' = "except" /\ error' = a /\ events' = fetched
               /\ UNCHANGED <<response, homeworks, homework, message>>
             ELSE IF c.raised THEN
               /\ pc' = "except" /\ error' = c /\ events' = checked
               /\ response' = a.value
               /\ UNCHANGED <<homeworks, homework, message>>
             ELSE IF Len(c.value) = 0 THEN
               /\ pc' = "finally" /\ events' = checked
               /\ response' = a.value /\ homeworks' = c.value
               /\ UNCHANGED <<homework, error, message>>
             ELSE IF p.raised THEN
               /\ pc' = "except" /\ error' = p /\ events' = parsed
               /\ response' = a.value /\ homeworks' = c.value
               /\ homework' = c.value[1]
               /\ UNCHANGED message
             ELSE
               /\ pc' = "send" /\ events' = parsed
               /\ response' = a.value /\ homeworks' = c.value
               /\ homework' = c.value[1]
               /\ message' = p.value
               /\ UNCHANGED error
  /\ UNCHANGED <<env, current_timestamp, last_error_message, propagating,
                 prev_cycle, last_marking, prev_sends>>

\* a Send that forgets line 168: the cache survives a notification
SendKeepCache ==
  /\ pc = "send"
  /\ \E t \in TransportOutcomes :
       LET r == send_message(message, t)
       IN /\ events' = events \o send_message_log(message, t) \o <<SendEvent(message, r)>>
          /\ IF r.raised THEN
               /\ pc' = "except" /\ error' = r
               /\ UNCHANGED current_timestamp
             ELSE IF r.value THEN
               /\ current_timestamp' =
                    response_get_current_date(response, current_timestamp)
               /\ pc' = "finally"
               /\ UNCHANGED error
             ELSE
               /\ pc' = "finally"
               /\ UNCHANGED <<current_timestamp, error>>
  /\ UNCHANGED <<env, response, homeworks, homework, http, message, propagating,
                 payload, cache0, prev_cycle, last_marking, prev_sends,
                 last_error_message>>

\* a Send with line 168 outside the `if`: the cache is cleared on failure too
SendClearOnFailure ==
  /\ pc = "send"
  /\ \E t \in TransportOutcomes :
       LET r == send_message(message, t)
       IN /\ events' = events \o send_message_log(message, t) \o <<SendEvent(message, r)>>
          /\ IF r.raised THEN
               /\ pc' = "except" /\ error' = r
               /\ UNCHANGED <<current_timestamp, last_error_message>>
             ELSE IF r.value THEN
               /\ current_timestamp' =
                    response_get_current_date(response, current_timestamp)
               /\ last_error_message' = None
               /\ pc' = "finally"
               /\ UNCHANGED error
             ELSE
               /\ pc' = "finally"
               /\ last_error_message' = None
               /\ UNCHANGED <<current_timestamp, error>>
  /\ UNCHANGED <<env, response, homeworks, homework, http, message, propagating,
                 payload, cache0, prev_cycle, last_marking, prev_sends>>

\* lines 163-168: send the status message; on success move the cursor
Send ==
  /\ pc = "send"
  /\ \E t \in TransportOutcomes :
       LET r == send_message(message, t)
       IN /\ events' = events \o send_message_log(message, t) \o <<SendEvent(message, r)>>
          /\ IF r.raised THEN
               /\ pc' = "except" /\ error' = r
               /\ UNCHANGED <<current_timestamp, last_error_message>>
             ELSE IF r.value THEN
               /\ current_timestamp' =
                    response_get_current_date(response, current_timestamp)
               /\ last_error_message' = None
               /\ pc' = "finally"
               /\ UNCHANGED error
             ELSE
               /\ pc' = "finally"
               /\ UNCHANGED <<current_timestamp, last_error_message, error>>
  /\ UNCHANGED <<env, response, homeworks, homework, http, message, propagating,
                 payload, cache0, prev_cycle, last_marking, prev_sends>>

\* a handler that also applies the response's current_date
ExceptAdvancing ==
  /\ pc = "except"
  /\ LET msg == ErrorMessage(error)
         logged == <<Event("logging.error.main", msg, "")>>
     IN /\ message' = msg
        /\ IF msg # last_error_message THEN
             \E t \in TransportOutcomes :
               LET r == send_message(msg, t)
                   sent == events \o send_message_log(msg, t) \o <<SendEvent(msg, r)>>
               IN IF r.raised THEN
                    /\ error' = r /\ propagating' = TRUE
                    /\ events' = sent
                    /\ UNCHANGED last_error_message
                  ELSE
                    /\ last_error_message' = msg
                    /\ events' = sent \o logged
                    /\ error' = NoError
                    /\ UNCHANGED propagating
           ELSE
             /\ events' = events \o logged
             /\ error' = NoError
             /\ UNCHANGED <<last_error_message, propagating>>
  /\ current_timestamp' = response_get_current_date(response, current_timestamp)
  /\ pc' = "finally"
  /\ UNCHANGED <<env, response, homeworks, homework, http, payload, cache0,
                 prev_cycle, last_marking, prev_sends>>

\* a handler that remembers the message only when it was delivered
ExceptRememberDelivered ==
  /\ pc = "except"
  /\ LET msg == ErrorMessage(error)
         logged == <<Event("logging.error.main", msg, "")>>
     IN /\ message' = msg
        /\ IF msg # last_error_message THEN
             \E t \in TransportOutcomes :
               LET r == send_message(msg, t)
                   sent == events \o send_message_log(msg, t) \o <<SendEvent(msg, r)>>
               IN IF r.raised THEN
                    /\ error' = r /\ propagating' = TRUE
                    /\ events' = sent
                    /\ UNCHANGED last_error_message
                  ELSE
                    /\ last_error_message' = IF r.value THEN msg ELSE last_error_message
                    /\ events' = sent \o logged
                    /\ error' = NoError
                    /\ UNCHANGED propagating
           ELSE
             /\ events' = events \o logged
             /\ error' = NoError
             /\ UNCHANGED <<last_error_message, propagating>>
  /\ pc' = "finally"
  /\ UNCHANGED <<env, current_timestamp, response, homeworks, homework, http,
                 payload, cache0, prev_cycle, last_marking, prev_sends>>

\* lines 171-176: the handler of `except Exception`
Except ==
  /\ pc = "except"
  /\ LET msg == ErrorMessage(error)
         logged == <<Event("logging.error.main", msg, "")>>
     IN /\ message' = msg
        /\ IF msg # last_error_message THEN
             \E t \in TransportOutcomes :
               LET r == send_message(msg, t)
                   sent == events \o send_message_log(msg, t) \o <<SendEvent(msg, r)>>
               IN IF r.raised THEN
                    /\ error' = r /\ propagating' = TRUE
                    /\ events' = sent
                    /\ UNCHANGED last_error_message
                  ELSE
                    /\ last_error_message' = msg
                    /\ events' = sent \o logged
                    /\ error' = NoError
                    /\ UNCHANGED propagating
           ELSE
             /\ events' = events \o logged
             /\ error' = NoError
             /\ UNCHANGED <<last_error_message, propagating>>
  /\ pc' = "finally"
  /\ UNCHANGED <<env, current_timestamp, response, homeworks, homework, http,
                 payload, cache0, prev_cycle, last_marking, prev_sends>>

\* a finally that backs off after a failure: a second sleep
FinallyBackoff ==
  /\ pc = "finally"
  /\ events' = events \o <<Event("time.sleep", IntStr(RETRY_PERIOD), "")>>
                 \o (IF CycleOutcome(events).kind \in {"error", "raised"}
                     THEN <<Event("time.sleep", IntStr(RETRY_PERIOD), "")>>
                     ELSE <<>>)
  /\ prev_cycle' = CycleOutcome(events)
  /\ last_marking' = IF CycleOutcome(events).kind \in {"empty", "unsent"}
                      THEN last_marking ELSE CycleOutcome(events)
  /\ pc' = IF propagating THEN "raised" ELSE "try"
  /\ response' = NoResponse
  /\ homeworks' = NoHomeworks
  /\ homework' = NoHomework
  /\ http' = NoExchange
  /\ message' = UnboundText
  /\ prev_sends' = SendResults(events)
  /\ UNCHANGED <<env, current_timestamp, last_error_message, error,
                 propagating, payload, cache0>>

\* lines 177-178: the sleep, then the next iteration or the exception leaves
Finally ==
  /\ pc = "finally"
  /\ events' = events \o <<Event("time.sleep", IntStr(RETRY_PERIOD), "")>>
  /\ prev_cycle' = CycleOutcome(events)
  /\ last_marking' = IF CycleOutcome(events).kind \in {"empty", "unsent"}
                      THEN last_marking ELSE CycleOutcome(events)
  /\ pc' = IF propagating THEN "raised" ELSE "try"
  \* the locals of the iteration are assigned before any read in an
  \* iteration (lines 158-162, 172): their values are dead here
  /\ response' = NoResponse
  /\ homeworks' = NoHomeworks
  /\ homework' = NoHomework
  /\ http' = NoExchange
  /\ message' = UnboundText
  /\ prev_sends' = SendResults(events)
  /\ UNCHANGED <<env, current_timestamp, last_error_message, error,
                 propagating, payload, cache0>>

Next == Start \/ Try \/ Send \/ Except \/ Finally

Spec == Init /\ [][Next]_vars

\* every step of main returns: the blocking calls do not block forever
FairSpec == Spec /\ WF_vars(Next)

TypeOK ==
  /\ pc \in {"start", "exit", "try", "send", "except", "finally", "raised"}
  /\ propagating \in BOOLEAN

(***************************************************************************)
(* Vocabulary of the properties: what happened in the current iteration,   *)
(* read off the history variables.                                         *)
(***************************************************************************)
\* the first piece of every message composed by the handler of line 171
ErrorPrefix == "Sboi v rabote programmy: "

PipelineCalls == {"get_api_answer", "check_response", "parse_status"}
\* the raising calls of fetch, validation and interpretation
PipelineRaises ==
  SelectSeq(events, LAMBDA e : e.fn \in PipelineCalls /\ e.res = "raise")
PipelineRaised == Len(PipelineRaises) > 0
\* the message the handler composes for the error the pipeline raised
PipelineMessage == <<ErrorPrefix>> \o PipelineRaises[1].arg

\* send_message calls of the iteration, by the kind of message
StatusSends ==
  SelectSeq(events, LAMBDA e : e.fn = "send_message" /\ e.arg[1] # ErrorPrefix)
ErrorSends ==
  SelectSeq(events, LAMBDA e : e.fn = "send_message" /\ e.arg[1] = ErrorPrefix)
\* the status message was sent and send_message returned True
StatusSent == \E i \in 1..Len(StatusSends) : StatusSends[i].res = "True"
StatusSendFailed == \E i \in 1..Len(StatusSends) : StatusSends[i].res = "False"
AnyRaise == \E i \in 1..Len(events) : events[i].res = "raise"
\* the validated list was empty: validation returned, nothing was interpreted
EmptyList ==
  /\ HasEvent(events, "check_response", "return")
  /\ CountEvents(events, "parse_status") = 0

\* the messages the handler logged at line 176
HandlerLogs == SelectSeq(events, LAMBDA e : e.fn = "logging.error.main")

\* the try/except part of the current iteration is over
BodyOver == pc = "finally"
\* ... and so is its sleep
IterationOver == pc \in {"try", "raised"} /\ events # <<>>

(***************************************************************************)
(* C1  The poll cursor changes in an iteration only if fetch, validation   *)
(* and interpretation succeeded, the list was non-empty and send_message   *)
(* returned success; it then equals the response's current_date when that  *)
(* key is present and the old cursor when it is absent.  In every other    *)
(* iteration the cursor is the one the iteration started with.             *)
(***************************************************************************)
C1_CursorMovesOnlyOnNotify ==
  /\ pc \in {"send", "except"} => current_timestamp = payload
  /\ BodyOver =>
       current_timestamp =
         IF /\ HasEvent(events, "get_api_answer", "return")
            /\ HasEvent(events, "check_response", "return")
            /\ HasEvent(events, "parse_status", "return")
            /\ Len(response.homeworks.items) > 0
            /\ StatusSent
         THEN IF "current_date" \in response.keys
              THEN response.current_date ELSE payload
         ELSE payload
  /\ IterationOver /\ ~StatusSent => current_timestamp = payload

C1_Witness ==
  /\ BodyOver /\ StatusSent
  /\ "current_date" \in response.keys
  /\ current_timestamp # payload

(***************************************************************************)
(* C2  In every iteration in which fetch, validation or interpretation     *)
(* raises, a send of 'Sboi v rabote programmy: {error}' is attempted iff   *)
(* it differs from the cache, after the iteration the cache equals that    *)
(* message, and the message is logged exactly once.                        *)
(***************************************************************************)
C2_ErrorReportedAndRemembered ==
  BodyOver /\ PipelineRaised =>
    /\ (Len(ErrorSends) > 0 <=> PipelineMessage # cache0)
    /\ last_error_message = PipelineMessage
    /\ HandlerLogs = <<Event("logging.error.main", PipelineMessage, "")>>

(***************************************************************************)
(* C3  (as stated) At the end of every iteration in which nothing raised,  *)
(* an iteration with an empty list included, the last-error cache is empty.*)
(***************************************************************************)
C3_CacheEmptyAfterEveryCleanCycle ==
  BodyOver /\ ~AnyRaise => last_error_message = None

(***************************************************************************)
(* C3  (amended) At the end of every iteration in which the status         *)
(* notification was sent with success the last-error cache is empty; an    *)
(* iteration without error whose list was empty or whose status send       *)
(* returned failure leaves the cache as it was.                            *)
(***************************************************************************)
C3_CacheClearedOnlyOnNotify ==
  BodyOver \/ IterationOver =>
    /\ StatusSent => last_error_message = None
    /\ ~AnyRaise /\ (EmptyList \/ StatusSendFailed) => last_error_message = cache0

C3_Witness ==
  /\ BodyOver /\ EmptyList /\ ~AnyRaise
  /\ last_error_message # None

(***************************************************************************)
(* C4  (as stated) The send of an error message is suppressed only if the  *)
(* immediately preceding cycle ended in an error with exactly the same     *)
(* message; an error after any other cycle is always sent.                 *)
(***************************************************************************)
\* the handler ran to its end without attempting a send
Suppressed == Len(HandlerLogs) > 0 /\ Len(ErrorSends) = 0

C4_SuppressedOnlyAfterSameErrorCycle ==
  BodyOver /\ Suppressed => prev_cycle = Cycle("error", HandlerLogs[1].arg)

(***************************************************************************)
(* C4  (amended) The send of an error message is suppressed only if the    *)
(* latest earlier cycle that was neither an empty-list cycle nor a cycle   *)
(* whose status send returned failure ended in an error with exactly the   *)
(* same message; an error whose latest such cycle is a different error or  *)
(* a successful status cycle, or that has none, is always sent.            *)
(***************************************************************************)
C4_SuppressedOnlyAfterSameErrorText ==
  BodyOver /\ Suppressed => last_marking = Cycle("error", HandlerLogs[1].arg)

C4_Witness ==
  /\ BodyOver /\ Suppressed
  /\ prev_cycle.kind \in {"empty", "unsent"}

(***************************************************************************)
(* C5  send_message never raises: whatever the transport call does,        *)
(* send_message returns a boolean and no exception reaches the caller.     *)
(***************************************************************************)
C5_SendMessageNeverRaises ==
  \A i \in 1..Len(events) :
    events[i].fn = "send_message" => events[i].res \in {"True", "False"}

(***************************************************************************)
(* C6  Once the configuration check has passed, main's loop never          *)
(* terminates: after every iteration another fetch follows.                *)
(***************************************************************************)
C6_LoopNeverTerminates ==
  pc \notin {"start", "exit"} => pc \in {"try", "send", "except", "finally"}

(***************************************************************************)
(* C7  Between any two consecutive calls of get_api_answer there is        *)
(* exactly one sleep of RETRY_PERIOD, on every exit path of the iteration: *)
(* none before the body is over, one (the last call) once it is.           *)
(***************************************************************************)
C7_ExactlyOneSleepPerIteration ==
  /\ pc \in {"send", "except", "finally"} => CountEvents(events, "time.sleep") = 0
  /\ IterationOver =>
       /\ CountEvents(events, "get_api_answer") = 1
       /\ events[1].fn = "get_api_answer"
       /\ CountEvents(events, "time.sleep") = 1
       /\ events[Len(events)] = Event("time.sleep", <<"6", "0", "0">>, "")

C7_Witness ==
  /\ pc = "try" /\ IterationOver
  /\ Len(HandlerLogs) > 0
  /\ prev_cycle.kind = "error"

(***************************************************************************)
(* C8  Each iteration performs exactly one fetch and at most one send      *)
(* attempt: a status and an error notification are never both attempted.   *)
(***************************************************************************)
C8_OneFetchAtMostOneSend ==
  /\ CountEvents(events, "get_api_answer") <= 1
  /\ CountEvents(events, "send_message") <= 1
  /\ BodyOver \/ IterationOver => CountEvents(events, "get_api_answer") = 1

(***************************************************************************)
(* C9  check_tokens succeeds iff none of the three values is missing or    *)
(* empty; otherwise it raises the missing-configuration error whose        *)
(* message names exactly the missing values, each once, and main performs  *)
(* no fetch and no send.                                                   *)
(***************************************************************************)
MissingSet == {n \in TokenNameSet : ~env[n].set \/ env[n].val = ""}

C9_CheckTokensReportsExactlyMissing ==
  pc # "start" =>
    /\ pc = "exit" <=> MissingSet # {}
    /\ pc = "exit" =>
         /\ error.raised /\ error.cls = "MissingTokensError" /\ propagating
         /\ {error.text[i] : i \in 2..Len(error.text)} \cap TokenNameSet = MissingSet
         /\ Cardinality({i \in 2..Len(error.text) : error.text[i] \in TokenNameSet})
              = Cardinality(MissingSet)
         /\ CountEvents(events, "get_api_answer") = 0
         /\ CountEvents(events, "send_message") = 0
         /\ payload = Unbound

C9_Witness == pc = "exit" /\ Cardinality(MissingSet) >= 2

(***************************************************************************)
(* C10  Every error raised by fetch, validation or interpretation is       *)
(* caught by the driver, leaves the poll cursor unchanged and no status    *)
(* notification is sent in that iteration, even when the response carried  *)
(* a current_date.                                                         *)
(***************************************************************************)
C10_PipelineErrorCaughtCursorKept ==
  PipelineRaised =>
    /\ pc = "except" =>
         /\ ~propagating
         /\ error.raised /\ error.text = PipelineRaises[1].arg
         /\ IsInstance(error.cls, {"Exception"})
    /\ pc # "except" => Len(HandlerLogs) > 0 \/ HasEvent(events, "send_message", "raise")
    /\ current_timestamp = payload
    /\ Len(StatusSends) = 0

C10_Witness ==
  /\ BodyOver /\ HasEvent(events, "parse_status", "raise")
  /\ "current_date" \in response.keys
  /\ response.current_date # payload

(***************************************************************************)
(* C11  An iteration whose validated homework list is empty attempts no    *)
(* send of any kind and leaves the poll cursor unchanged, even when the    *)
(* response contains a current_date; the next fetch uses the same          *)
(* from_date.                                                              *)
(***************************************************************************)
C11_EmptyListNoSendCursorKept ==
  /\ [](EmptyList => /\ CountEvents(events, "send_message") = 0
                     /\ current_timestamp = payload)
  /\ [][pc = "try" /\ EmptyList => payload' = payload]_vars

C11_Witness ==
  /\ BodyOver /\ EmptyList
  /\ "current_date" \in response.keys
  /\ response.current_date # payload

(***************************************************************************)
(* C12  In every reachable state of main's loop the poll cursor is an      *)
(* integer: whatever decoded JSON the server returns, the from_date passed *)
(* to get_api_answer is always an integer.                                 *)
(***************************************************************************)
C12_CursorAlwaysInteger ==
  pc \in {"try", "send", "except", "finally"} =>
    /\ current_timestamp.type = "int"
    /\ payload.type \in {"int", "unbound"}

(***************************************************************************)
(* C13  check_response classifies every decoded JSON value, in this order: *)
(* not a mapping -> structural-type error naming the received type;        *)
(* mapping without 'homeworks' -> missing-field error naming 'homeworks';  *)
(* 'homeworks' not a sequence -> structural-type error; otherwise it       *)
(* returns the homeworks sequence unchanged and raises nothing.            *)
(***************************************************************************)
CheckEvents == SelectSeq(events, LAMBDA e : e.fn = "check_response")
\* the exception being handled is the one the latest call raised
RaisedBy(e) == pc = "except" /\ events[Len(events)] = e /\ e.res = "raise"
Names(text, piece) == \E i \in 1..Len(text) : text[i] = piece

C13_CheckResponseClassifies ==
  pc \in {"send", "except", "finally"} /\ Len(CheckEvents) > 0 =>
    LET e == CheckEvents[1]
    IN IF response.type # "dict" THEN
         /\ e.res = "raise" /\ Names(e.arg, response.type)
         /\ RaisedBy(e) => error.cls = "TypeError" /\ error.text = e.arg
       ELSE IF "homeworks" \notin response.keys THEN
         /\ e.res = "raise"
         /\ e.arg = <<"Otsutstvuet klyuch \"homeworks\" v otvete API">>
         /\ RaisedBy(e) => error.cls = "MissingAPIKeyError"
       ELSE IF response.homeworks.type # "list" THEN
         /\ e.res = "raise" /\ Names(e.arg, response.homeworks.type)
         /\ RaisedBy(e) => error.cls = "TypeError" /\ error.text = e.arg
       ELSE
         /\ e.res = "return"
         /\ homeworks = response.homeworks.items

C13_Witness ==
  /\ pc = "except" /\ Len(CheckEvents) > 0
  /\ response.type = "list"
  /\ error.cls = "TypeError"

(***************************************************************************)
(* C14  parse_status maps every record: not a mapping -> 'not a record'    *)
(* error; missing homework_name or status -> missing-field error naming    *)
(* the absent field; status outside {approved, reviewing, rejected} ->     *)
(* unexpected-status error naming the value; otherwise it returns exactly  *)
(* 'Izmenilsya status proverki raboty "{homework_name}". {verdict}'.       *)
(***************************************************************************)
ParseEvents == SelectSeq(events, LAMBDA e : e.fn = "parse_status")
KnownStatus(st) == st.type = "str" /\ st.str \in {"approved", "reviewing", "rejected"}

C14_ParseStatusClassifies ==
  pc \in {"send", "except", "finally"} /\ Len(ParseEvents) > 0 =>
    LET e == ParseEvents[1]
    IN IF homework.type # "dict" THEN
         /\ e.res = "raise"
         /\ RaisedBy(e) => error.cls = "APIResponseError"
       ELSE IF "homework_name" \notin homework.keys THEN
         /\ e.res = "raise"
         /\ e.arg = <<"Otsutstvuet klyuch \"homework_name\" v informatsii o domashnei rabote">>
         /\ RaisedBy(e) => error.cls = "MissingAPIKeyError"
       ELSE IF "status" \notin homework.keys THEN
         /\ e.res = "raise"
         /\ e.arg = <<"Otsutstvuet klyuch \"status\" v informatsii o domashnei rabote">>
         /\ RaisedBy(e) => error.cls = "MissingAPIKeyError"
       ELSE IF ~KnownStatus(homework.status) THEN
         /\ e.res = "raise"
         /\ RaisedBy(e) => error.cls = "UnexpectedHomeworkStatusError"
         /\ Len(StatusSends) = 0
       ELSE
         /\ e.res = "return"
         /\ pc = "send" =>
              message = <<"Izmenilsya status proverki raboty \"",
                          homework.homework_name.str, "\". ",
                          HOMEWORK_VERDICTS[homework.status.str]>>

(***************************************************************************)
(* C16  get_api_answer classifies each request outcome with a fixed        *)
(* precedence: a network failure -> endpoint-unavailable; otherwise a      *)
(* status other than 200 -> endpoint-unavailable carrying the status code, *)
(* whether or not the body is JSON; otherwise a body that is not JSON ->   *)
(* malformed-response; otherwise the decoded value, whatever its shape.    *)
(***************************************************************************)
C16_GetApiAnswerPrecedence ==
  pc \in {"send", "except", "finally"} =>
    LET e == events[1]
    IN /\ e.fn = "get_api_answer"
       /\ IF http.exc # "" THEN
            /\ e.res = "raise"
            /\ e.arg = <<"Oshibka pri zaprose k API: ">> \o http.text
            /\ RaisedBy(e) => error.cls = "EndpointUnavailableError"
          ELSE IF http.status_code # 200 THEN
            /\ e.res = "raise"
            /\ e.arg = <<"Endpoint nedostupen. Kod otveta: ">>
                        \o (CASE http.status_code = 500 -> <<"5", "0", "0">>
                              [] http.status_code = 404 -> <<"4", "0", "4">>)
            /\ RaisedBy(e) => error.cls = "EndpointUnavailableError"
          ELSE IF ~http.is_json THEN
            /\ e.res = "raise"
            /\ RaisedBy(e) => error.cls = "JSONDecodeError"
          ELSE
            /\ e.res = "return"
            /\ response = http.json

C16_Witness ==
  /\ pc = "except"
  /\ http.exc = "" /\ http.status_code = 500 /\ http.is_json
  /\ error.cls = "EndpointUnavailableError"

(***************************************************************************)
(* C17  Only the first homework record influences an iteration: what is    *)
(* interpreted, sent or raised, the resulting cursor and the resulting     *)
(* cache are determined by the first record, current_date, the state at    *)
(* the top of the iteration and the results of the sends; the remaining    *)
(* records are never interpreted, raise no error and produce no            *)
(* notification, even when malformed or of unknown status.                 *)
(***************************************************************************)
C17_OnlyFirstRecordMatters ==
  BodyOver /\ HasEvent(events, "check_response", "return")
           /\ Len(response.homeworks.items) > 0 =>
    LET first == response.homeworks.items[1]
        p == parse_status(first)
        failure == <<ErrorPrefix>> \o p.text
    IN /\ homework = first
       /\ ParseEvents = <<CallEvent("parse_status", p)>>
       /\ IF p.raised THEN
            /\ Len(StatusSends) = 0
            /\ \A i \in 1..Len(ErrorSends) : ErrorSends[i].arg = failure
            /\ \A i \in 1..Len(HandlerLogs) : HandlerLogs[i].arg = failure
            /\ current_timestamp = payload
            /\ last_error_message \in {cache0, failure}
            /\ ~HasEvent(events, "send_message", "raise") => last_error_message = failure
          ELSE
            /\ Len(StatusSends) = 1 /\ StatusSends[1].arg = p.value
            /\ current_timestamp =
                 IF StatusSent /\ "current_date" \in response.keys
                 THEN response.current_date ELSE payload
            /\ StatusSent => last_error_message = None
            /\ StatusSendFailed => last_error_message = cache0

C17_Witness ==
  /\ BodyOver /\ StatusSent
  /\ Len(response.homeworks.items) >= 2
  /\ LET second == response.homeworks.items[2]
     IN second.type # "dict" \/ ~KnownStatus(second.status)

(***************************************************************************)
(* C18  A failed send of an error notification is not retried: the cache   *)
(* is set to the composed message whether send_message returned success or *)
(* failure, so while the identical error recurs in consecutive cycles no   *)
(* further send is attempted.                                              *)
(***************************************************************************)
C18_FailedErrorSendNotRetried ==
  /\ (BodyOver \/ IterationOver) /\ Len(ErrorSends) > 0
       /\ ErrorSends[1].res \in {"True", "False"}
       => last_error_message = ErrorSends[1].arg
  /\ BodyOver /\ Len(HandlerLogs) > 0
       /\ prev_cycle = Cycle("error", HandlerLogs[1].arg)
       => Len(ErrorSends) = 0

C18_Witness ==
  /\ BodyOver /\ Suppressed
  /\ prev_cycle.kind = "error"
  /\ Len(prev_sends) > 0 /\ prev_sends[Len(prev_sends)] = "False"

(***************************************************************************)
(* C19  When the send of a status notification reports failure, the        *)
(* iteration leaves the poll cursor and the last-error cache unchanged and *)
(* attempts no error notification; the next iteration fetches with the     *)
(* same from_date, and a previously notified error recurring right after   *)
(* it is still suppressed.                                                 *)
(***************************************************************************)
C19_FailedStatusSendChangesNothing ==
  /\ []((BodyOver \/ IterationOver) /\ StatusSendFailed =>
          /\ current_timestamp = payload
          /\ last_error_message = cache0
          /\ Len(ErrorSends) = 0 /\ Len(HandlerLogs) = 0)
  /\ [](BodyOver /\ Len(HandlerLogs) > 0 /\ prev_cycle.kind = "unsent"
          /\ last_marking = Cycle("error", HandlerLogs[1].arg)
          => Len(ErrorSends) = 0)
  /\ [][pc = "try" /\ StatusSendFailed => payload' = payload]_vars

C19_Witness ==
  /\ BodyOver /\ Suppressed
  /\ prev_cycle.kind = "unsent" /\ prev_sends = <<"False">>

====
